---- MODULE Spec2Model ----
(***************************************************************************)
(* Model of manufacturers_alphavantage.py: the function get_financials,    *)
(* the module-level example that runs when the module is loaded, and the   *)
(* HTTP layer (requests.get / Response.json) the function calls.           *)
(*                                                                         *)
(* Python values are records [type, str, items]:                           *)
(*   str   - a string, kept as a sequence of chunks: a chunk is a run of   *)
(*           URL-unreserved characters ("HON") or one reserved character   *)
(*           (" ", "&", "=", "+");                                         *)
(*   items - the entries of a list (k = "") or of a dict (k = the key).    *)
(***************************************************************************)
EXTENDS Integers, Sequences, FiniteSets, TLC

\* ---------------------------------------------------------------- bounds
\* Threads that call get_financials after the module is loaded.
NumThreads == 2
\* Invocations of get_financials by the threads, in total.
MaxCalls == 3
\* Loads of the module (a failed import may be tried again).
MaxLoads == 2

\* ---------------------------------------------------------- Python values
PyStr(s) == [type |-> "str", str |-> s, items |-> <<>>]
PyNone == [type |-> "NoneType", str |-> <<>>, items |-> <<>>]
PyList(elems) ==
    [type |-> "list", str |-> <<>>,
     items |-> [i \in 1..Len(elems) |-> [k |-> <<>>, v |-> elems[i]]]]
PyDict(entries) == [type |-> "dict", str |-> <<>>, items |-> entries]
\* A name of a namespace that no assignment has bound yet.
Unbound == [type |-> "unbound", str |-> <<>>, items |-> <<>>]

\* dict[k] = v: a key already present keeps its place and takes the new value.
DictSet(entries, k, v) ==
    IF \E i \in 1..Len(entries) : entries[i].k = k
    THEN [i \in 1..Len(entries) |->
             IF entries[i].k = k THEN [k |-> k, v |-> v] ELSE entries[i]]
    ELSE Append(entries, [k |-> k, v |-> v])

\* ------------------------------------------------------- program literals
\* line 4
BaseUrl == <<"https://www.alphavantage.co/query">>
\* line 6
IncomeStatement == PyStr(<<"INCOME_STATEMENT">>)
\* line 15
PlaceholderKey == PyStr(<<"your_alpha_vantage_api_key">>)
\* line 16
Hon == PyStr(<<"HON">>)

\* Params with the two caller-supplied values under each other's name.
ParamsSwapped(api_key, symbol) ==
    PyDict(<< [k |-> <<"function">>, v |-> IncomeStatement],
              [k |-> <<"symbol">>, v |-> api_key],
              [k |-> <<"apikey">>, v |-> symbol] >>)

\* lines 5-9: the dict literal, in the order written.
Params(api_key, symbol) ==
    PyDict(<< [k |-> <<"function">>, v |-> IncomeStatement],
              [k |-> <<"symbol">>, v |-> symbol],
              [k |-> <<"apikey">>, v |-> api_key] >>)

\* ------------------------------------- requests.get: the request target
\* urllib's quote_plus, chunk by chunk.
QuotePlusChunk(c) ==
    CASE c = " " -> "+"
      [] c = "&" -> "%26"
      [] c = "=" -> "%3D"
      [] c = "+" -> "%2B"
      [] OTHER -> c

QuotePlus(s) == [i \in 1..Len(s) |-> QuotePlusChunk(s[i])]

\* requests drops a parameter whose value is None and encodes the others.
RECURSIVE EncodeParams(_)
EncodeParams(entries) ==
    IF entries = <<>> THEN <<>>
    ELSE LET e == entries[1]
             rest == EncodeParams(Tail(entries))
             pair == QuotePlus(e.k) \o <<"=">> \o QuotePlus(e.v.str)
         IN  IF e.v.type = "NoneType" THEN rest
             ELSE IF rest = <<>> THEN pair
             ELSE pair \o <<"&">> \o rest

\* The prepared request of requests.get(url, params=params).
PrepareRequest(url, params) ==
    [method |-> "GET", url |-> url, query |-> EncodeParams(params.items)]

\* ------------------------- what the server reads off the request target
UnquotePlusChunk(c) ==
    CASE c = "+" -> " "
      [] c = "%26" -> "&"
      [] c = "%3D" -> "="
      [] c = "%2B" -> "+"
      [] OTHER -> c

UnquotePlus(s) == [i \in 1..Len(s) |-> UnquotePlusChunk(s[i])]

\* Index of the first chunk equal to c in s, or Len(s) + 1.
RECURSIVE IndexOf(_, _, _)
IndexOf(s, c, i) ==
    IF i > Len(s) THEN i
    ELSE IF s[i] = c THEN i
    ELSE IndexOf(s, c, i + 1)

\* One name=value field of the query.
ParseField(f) ==
    LET eq == IndexOf(f, "=", 1)
    IN  [name |-> UnquotePlus(SubSeq(f, 1, eq - 1)),
         value |-> UnquotePlus(SubSeq(f, eq + 1, Len(f)))]

\* The query split at "&" into fields, in order.
RECURSIVE ParseQuery(_)
ParseQuery(q) ==
    IF q = <<>> THEN <<>>
    ELSE LET amp == IndexOf(q, "&", 1)
         IN  <<ParseField(SubSeq(q, 1, amp - 1))>>
                 \o (IF amp >= Len(q) THEN <<>>
                     ELSE ParseQuery(SubSeq(q, amp + 1, Len(q))))

\* --------------------------------------- Response.json: the JSON decoder
\* A body is a sequence of lexical tokens.
Punct(p) == [t |-> "punct", s |-> <<p>>]
StrTok(s) == [t |-> "str", s |-> s]
Junk(s) == [t |-> "junk", s |-> <<s>>]

NoParse(i) == [ok |-> FALSE, val |-> PyNone, next |-> i]
Parsed(v, i) == [ok |-> TRUE, val |-> v, next |-> i]
IsPunct(toks, i, p) == i <= Len(toks) /\ toks[i] = Punct(p)

RECURSIVE ParseValue(_, _), ParseElements(_, _, _), ParseMembers(_, _, _)

\* A value starting at token i: a string, a list or an object.
ParseValue(toks, i) ==
    IF i > Len(toks) THEN NoParse(i)
    ELSE IF toks[i].t = "str" THEN Parsed(PyStr(toks[i].s), i + 1)
    ELSE IF IsPunct(toks, i, "[")
         THEN IF IsPunct(toks, i + 1, "]") THEN Parsed(PyList(<<>>), i + 2)
              ELSE ParseElements(toks, i + 1, <<>>)
    ELSE IF IsPunct(toks, i, "{")
         THEN IF IsPunct(toks, i + 1, "}") THEN Parsed(PyDict(<<>>), i + 2)
              ELSE ParseMembers(toks, i + 1, <<>>)
    ELSE NoParse(i)

\* value ("," value)* "]", the elements read so far in acc.
ParseElements(toks, i, acc) ==
    LET r == ParseValue(toks, i)
    IN  IF ~r.ok THEN NoParse(i)
        ELSE IF IsPunct(toks, r.next, ",")
             THEN ParseElements(toks, r.next + 1, Append(acc, r.val))
        ELSE IF IsPunct(toks, r.next, "]")
             THEN Parsed(PyList(Append(acc, r.val)), r.next + 1)
        ELSE NoParse(r.next)

\* string ":" value ("," string ":" value)* "}", the entries so far in acc.
ParseMembers(toks, i, acc) ==
    IF ~(i <= Len(toks) /\ toks[i].t = "str" /\ IsPunct(toks, i + 1, ":"))
    THEN NoParse(i)
    ELSE LET r == ParseValue(toks, i + 2)
             entries == DictSet(acc, toks[i].s, r.val)
         IN  IF ~r.ok THEN NoParse(i)
             ELSE IF IsPunct(toks, r.next, ",")
                  THEN ParseMembers(toks, r.next + 1, entries)
             ELSE IF IsPunct(toks, r.next, "}")
                  THEN Parsed(PyDict(entries), r.next + 1)
             ELSE NoParse(r.next)

\* json.loads: one value, and nothing after it.
JsonDecode(body) ==
    LET r == ParseValue(body, 1)
    IN  IF r.ok /\ r.next = Len(body) + 1 THEN r ELSE NoParse(r.next)

\* ----------------------------------------------------------------- inputs
\* Arguments the threads pass: tickers and keys as a caller writes them, with
\* reserved characters, empty, or None (the function validates nothing).
TestKey == PyStr(<<"TESTKEY">>)
BadKey == PyStr(<<"BAD", "&", "KEY", "=", "1">>)
BfB == PyStr(<<"BF", " ", "B", "+">>)
EmptyStr == PyStr(<<>>)
Keys == {TestKey, BadKey, PlaceholderKey, EmptyStr, PyNone}
Symbols == {Hon, BfB, EmptyStr, PyNone}
ArgPairs == [api_key : Keys, symbol : Symbols]
\* Two calls that can be told apart, for the concurrent callers.
ConcArgs ==
    { [api_key |-> TestKey, symbol |-> Hon],
      [api_key |-> BadKey, symbol |-> BfB] }

\* {"symbol": "HON", "annualReports": []}
HonBody ==
    << Punct("{"), StrTok(<<"symbol">>), Punct(":"), StrTok(<<"HON">>), Punct(","),
       StrTok(<<"annualReports">>), Punct(":"), Punct("["), Punct("]"), Punct("}") >>
\* {"Error Message": "Invalid API call"}
ErrorBody ==
    << Punct("{"), StrTok(<<"Error", " ", "Message">>), Punct(":"),
       StrTok(<<"Invalid", " ", "API", " ", "call">>), Punct("}") >>
\* an HTML error page
HtmlBody == << Junk("<html>") >>
\* {"symbol": "HON",      (the connection closed early)
TruncatedBody ==
    << Punct("{"), StrTok(<<"symbol">>), Punct(":"), StrTok(<<"HON">>), Punct(",") >>
\* {"annualReports": [{"netIncome": "5658"}]} <html>     (data after the document)
TrailingBody ==
    << Punct("{"), StrTok(<<"annualReports">>), Punct(":"), Punct("["),
       Punct("{"), StrTok(<<"netIncome">>), Punct(":"), StrTok(<<"5658">>), Punct("}"),
       Punct("]"), Punct("}"), Junk("<html>") >>
EmptyBody == << >>

\* What the HTTP layer may answer: a status and a body, of every combination
\* the function could tell apart if it looked.
Responses ==
    { [status |-> 200, body |-> HonBody],
      [status |-> 200, body |-> ErrorBody],
      [status |-> 403, body |-> ErrorBody],
      [status |-> 500, body |-> HtmlBody],
      [status |-> 200, body |-> TruncatedBody],
      [status |-> 200, body |-> TrailingBody],
      [status |-> 204, body |-> EmptyBody] }
ConcResponses ==
    { [status |-> 200, body |-> HonBody],
      [status |-> 403, body |-> ErrorBody],
      [status |-> 500, body |-> HtmlBody] }
\* One call, answered with a JSON body or with a body that is not JSON, for
\* the question whether a call ends.
LiveArgs == { [api_key |-> TestKey, symbol |-> Hon] }
LiveResponses ==
    { [status |-> 200, body |-> HonBody],
      [status |-> 500, body |-> HtmlBody] }
\* Which of the bodies are JSON documents, and which are not.
JsonBodies == {HonBody, ErrorBody}
NonJsonBodies == {HtmlBody, TruncatedBody, TrailingBody, EmptyBody}

\* ------------------------------------------------------------------ state
\* Caller 0 is the module's own line 17; callers 1..NumThreads are threads
\* that imported the module.
Loader == 0
Threads == 1..NumThreads
Callers == {Loader} \cup Threads

VARIABLES
    modpc,           \* position of the module-level code
    loads,           \* loads of the module begun so far
    api_key,         \* module variable, line 15
    company_symbol,  \* module variable, line 16
    financials,      \* module variable, line 17
    call,            \* call[c]: the arguments caller c passed in its latest call
    pc,              \* pc[c]: position of caller c's invocation of get_financials
    frame,           \* frame[c]: the locals of that invocation
    http,            \* http[c]: the HTTP layer's exchange for that invocation
    gets,            \* gets[c]: GETs the invocation has issued
    outcome,         \* outcome[c]: what the invocation handed back to its caller
    calls            \* invocations by the threads so far

vars == <<modpc, loads, api_key, company_symbol, financials,
          call, pc, frame, http, gets, outcome, calls>>
modvars == <<api_key, company_symbol, financials>>

NoResponse == [status |-> 0, body |-> <<>>]
NoRequest == [method |-> "", url |-> <<>>, query |-> <<>>]
NoFrame ==
    [api_key |-> Unbound, symbol |-> Unbound, base_url |-> <<>>,
     params |-> Unbound, response |-> NoResponse, data |-> Unbound]
NoExchange == [state |-> "none", request |-> NoRequest, response |-> NoResponse]
NoOutcome == [kind |-> "none", value |-> Unbound, error |-> ""]
NoCall == [api_key |-> Unbound, symbol |-> Unbound]
\* How an invocation ends: with a returned value, or with the exception of
\* requests.get or of response.json().
Value(v) == [kind |-> "value", value |-> v, error |-> ""]
Raised(e) == [kind |-> "error", value |-> Unbound, error |-> e]
ConnectionError == Raised("ConnectionError")
DecodingError == Raised("JSONDecodeError")

Init ==
    /\ modpc = "line15"
    /\ loads = 1
    /\ api_key = Unbound
    /\ company_symbol = Unbound
    /\ financials = Unbound
    /\ call = [c \in Callers |-> NoCall]
    /\ pc = [c \in Callers |-> "idle"]
    /\ frame = [c \in Callers |-> NoFrame]
    /\ http = [c \in Callers |-> NoExchange]
    /\ gets = [c \in Callers |-> 0]
    /\ outcome = [c \in Callers |-> NoOutcome]
    /\ calls = 0

\* ------------------------------------------------- get_financials, lines 3-12
\* line 3: the call binds the parameters in a new frame.
Enter(c, k, s) ==
    /\ call' = [call EXCEPT ![c] = [api_key |-> k, symbol |-> s]]
    /\ pc' = [pc EXCEPT ![c] = "line4"]
    /\ frame' = [frame EXCEPT ![c] = [NoFrame EXCEPT !.api_key = k, !.symbol = s]]
    /\ http' = [http EXCEPT ![c] = NoExchange]
    /\ gets' = [gets EXCEPT ![c] = 0]
    /\ outcome' = [outcome EXCEPT ![c] = NoOutcome]

\* The frame is dropped and the caller gets a value or an exception.
Leave(c, to, res) ==
    /\ pc' = [pc EXCEPT ![c] = to]
    /\ frame' = [frame EXCEPT ![c] = NoFrame]
    /\ outcome' = [outcome EXCEPT ![c] = res]

\* line 4
AssignBaseUrl(c) ==
    /\ pc[c] = "line4"
    /\ frame' = [frame EXCEPT ![c].base_url = BaseUrl]
    /\ pc' = [pc EXCEPT ![c] = "line5"]
    /\ UNCHANGED <<modpc, loads, modvars, call, http, gets, outcome, calls>>

\* AssignParams with params a module-level name that every invocation shares.
AssignParamsShared(c) ==
    /\ pc[c] = "line5"
    /\ frame' = [d \in Callers |->
                   IF d = c \/ pc[d] = "line10"
                   THEN [frame[d] EXCEPT
                           !.params = Params(frame[c].api_key, frame[c].symbol)]
                   ELSE frame[d]]
    /\ pc' = [pc EXCEPT ![c] = "line10"]
    /\ UNCHANGED <<modpc, loads, modvars, call, http, gets, outcome, calls>>

\* lines 5-9
AssignParams(c) ==
    /\ pc[c] = "line5"
    /\ frame' = [frame EXCEPT ![c].params = Params(frame[c].api_key, frame[c].symbol)]
    /\ pc' = [pc EXCEPT ![c] = "line10"]
    /\ UNCHANGED <<modpc, loads, modvars, call, http, gets, outcome, calls>>

\* line 10: requests.get sends the request and blocks.
SendGet(c) ==
    /\ pc[c] = "line10"
    /\ http' = [http EXCEPT ![c] =
                  [state |-> "sent",
                   request |-> PrepareRequest(frame[c].base_url, frame[c].params),
                   response |-> NoResponse]]
    /\ gets' = [gets EXCEPT ![c] = @ + 1]
    /\ pc' = [pc EXCEPT ![c] = "awaiting"]
    /\ UNCHANGED <<modpc, loads, modvars, call, frame, outcome, calls>>

\* GetReturns followed by response.raise_for_status().
GetReturnsChecked(c) ==
    /\ pc[c] = "awaiting"
    /\ http[c].state = "responded"
    /\ IF http[c].response.status >= 400
       THEN Leave(c, "raised", Raised("HTTPError"))
       ELSE /\ frame' = [frame EXCEPT ![c].response = http[c].response]
            /\ pc' = [pc EXCEPT ![c] = "line11"]
            /\ UNCHANGED outcome
    /\ UNCHANGED <<modpc, loads, modvars, call, http, gets, calls>>

\* line 10: requests.get returns the response, whatever its status.
GetReturns(c) ==
    /\ pc[c] = "awaiting"
    /\ http[c].state = "responded"
    /\ frame' = [frame EXCEPT ![c].response = http[c].response]
    /\ pc' = [pc EXCEPT ![c] = "line11"]
    /\ UNCHANGED <<modpc, loads, modvars, call, http, gets, outcome, calls>>

\* GetRaises inside "except RequestException: return {}".
GetRaisesSwallowed(c) ==
    /\ pc[c] = "awaiting"
    /\ http[c].state = "failed"
    /\ Leave(c, "returned", Value(PyDict(<<>>)))
    /\ UNCHANGED <<modpc, loads, modvars, call, http, gets, calls>>

\* GetRaises with one more attempt before giving up.
GetRaisesRetry(c) ==
    /\ pc[c] = "awaiting"
    /\ http[c].state = "failed"
    /\ IF gets[c] < 2
       THEN /\ pc' = [pc EXCEPT ![c] = "line10"]
            /\ UNCHANGED <<frame, outcome>>
       ELSE Leave(c, "raised", ConnectionError)
    /\ UNCHANGED <<modpc, loads, modvars, call, http, gets, calls>>

\* GetRaises with a timeout of the function's own: it gives up on an exchange
\* the HTTP layer has not ended.
GetRaisesOrTimeout(c) ==
    /\ pc[c] = "awaiting"
    /\ http[c].state \in {"sent", "failed"}
    /\ Leave(c, "raised",
             Raised(IF http[c].state = "sent" THEN "Timeout" ELSE "ConnectionError"))
    /\ UNCHANGED <<modpc, loads, modvars, call, http, gets, calls>>

\* line 10: requests.get raises; no handler, so the exception leaves the function.
GetRaises(c) ==
    /\ pc[c] = "awaiting"
    /\ http[c].state = "failed"
    /\ Leave(c, "raised", ConnectionError)
    /\ UNCHANGED <<modpc, loads, modvars, call, http, gets, calls>>

\* Decode that takes the first JSON value of the body and ignores what
\* follows, and falls back to an empty dict.
DecodeLenient(c) ==
    /\ pc[c] = "line11"
    /\ LET r == ParseValue(frame[c].response.body, 1)
       IN  /\ frame' = [frame EXCEPT ![c].data = IF r.ok THEN r.val ELSE PyDict(<<>>)]
           /\ pc' = [pc EXCEPT ![c] = "line12"]
    /\ UNCHANGED <<modpc, loads, modvars, call, http, gets, outcome, calls>>

\* line 11: response.json() decodes the body or raises.
Decode(c) ==
    /\ pc[c] = "line11"
    /\ LET r == JsonDecode(frame[c].response.body)
       IN  IF r.ok
           THEN /\ frame' = [frame EXCEPT ![c].data = r.val]
                /\ pc' = [pc EXCEPT ![c] = "line12"]
                /\ UNCHANGED outcome
           ELSE Leave(c, "raised", DecodingError)
    /\ UNCHANGED <<modpc, loads, modvars, call, http, gets, calls>>

\* Return of the "annualReports" entry alone when the document has one.
ReturnFiltered(c) ==
    /\ pc[c] = "line12"
    /\ LET d == frame[c].data
           hit == {i \in 1..Len(d.items) : d.items[i].k = <<"annualReports">>}
       IN  Leave(c, "returned",
                 Value(IF d.type = "dict" /\ hit # {}
                       THEN d.items[CHOOSE i \in hit : TRUE].v ELSE d))
    /\ UNCHANGED <<modpc, loads, modvars, call, http, gets, calls>>

\* Return that also keeps the result in the module variable financials.
ReturnStoring(c) ==
    /\ pc[c] = "line12"
    /\ Leave(c, "returned", Value(frame[c].data))
    /\ financials' = frame[c].data
    /\ UNCHANGED <<modpc, loads, api_key, company_symbol, call, http, gets, calls>>

\* line 12
Return(c) ==
    /\ pc[c] = "line12"
    /\ Leave(c, "returned", Value(frame[c].data))
    /\ UNCHANGED <<modpc, loads, modvars, call, http, gets, calls>>

\* ------------------------------------------------------- the HTTP layer
\* The remote service answers the request of caller c.
HttpRespond(c, r) ==
    /\ http[c].state = "sent"
    /\ http' = [http EXCEPT ![c].state = "responded", ![c].response = r]
    /\ UNCHANGED <<modpc, loads, modvars, call, pc, frame, gets, outcome, calls>>

\* Connection refused, timeout of the transport, DNS failure.
HttpFail(c) ==
    /\ http[c].state = "sent"
    /\ http' = [http EXCEPT ![c].state = "failed"]
    /\ UNCHANGED <<modpc, loads, modvars, call, pc, frame, gets, outcome, calls>>

\* ------------------------------------------- module-level code, lines 15-17
\* line 15
ModAssignKey ==
    /\ modpc = "line15"
    /\ api_key' = PlaceholderKey
    /\ modpc' = "line16"
    /\ UNCHANGED <<loads, company_symbol, financials, call, pc, frame, http, gets, outcome, calls>>

\* line 16
ModAssignSymbol ==
    /\ modpc = "line16"
    /\ company_symbol' = Hon
    /\ modpc' = "line17"
    /\ UNCHANGED <<loads, api_key, financials, call, pc, frame, http, gets, outcome, calls>>

\* The example under "if __name__ == '__main__':", loaded by an import.
ModCallGuarded ==
    /\ modpc = "line17"
    /\ modpc' = "loaded"
    /\ UNCHANGED <<loads, modvars, call, pc, frame, http, gets, outcome, calls>>

\* line 17, the call
ModCall ==
    /\ modpc = "line17"
    /\ Enter(Loader, api_key, company_symbol)
    /\ modpc' = "in_call"
    /\ UNCHANGED <<loads, modvars, calls>>

\* line 17, the assignment of the returned value
ModBind ==
    /\ modpc = "in_call"
    /\ pc[Loader] = "returned"
    /\ financials' = outcome[Loader].value
    /\ modpc' = "loaded"
    /\ UNCHANGED <<loads, api_key, company_symbol, call, pc, frame, http, gets, outcome, calls>>

\* line 17: the call raised, and the exception leaves the module.
ModFail ==
    /\ modpc = "in_call"
    /\ pc[Loader] = "raised"
    /\ modpc' = "failed"
    /\ UNCHANGED <<loads, modvars, call, pc, frame, http, gets, outcome, calls>>

\* A failed import leaves no module behind: the next import runs the file
\* again in a fresh namespace.
Reload ==
    /\ modpc = "failed"
    /\ loads < MaxLoads
    /\ loads' = loads + 1
    /\ modpc' = "line15"
    /\ api_key' = Unbound
    /\ company_symbol' = Unbound
    /\ financials' = Unbound
    /\ call' = [call EXCEPT ![Loader] = NoCall]
    /\ pc' = [pc EXCEPT ![Loader] = "idle"]
    /\ http' = [http EXCEPT ![Loader] = NoExchange]
    /\ gets' = [gets EXCEPT ![Loader] = 0]
    /\ outcome' = [outcome EXCEPT ![Loader] = NoOutcome]
    /\ UNCHANGED <<frame, calls>>

\* --------------------------------------------------------------- callers
\* A thread that imported the module calls get_financials(k, s).
ThreadCall(t, a) ==
    /\ modpc = "loaded"
    /\ pc[t] \in {"idle", "returned", "raised"}
    /\ calls < MaxCalls
    /\ calls' = calls + 1
    /\ Enter(t, a.api_key, a.symbol)
    /\ UNCHANGED <<modpc, loads, modvars>>

Step(c) ==
    \/ AssignBaseUrl(c)
    \/ AssignParams(c)
    \/ SendGet(c)
    \/ GetReturns(c)
    \/ GetRaises(c)
    \/ Decode(c)
    \/ Return(c)

Module ==
    \/ ModAssignKey
    \/ ModAssignSymbol
    \/ ModCall
    \/ ModBind
    \/ ModFail
    \/ Reload

\* The module's load, then calls by the threads T with arguments from A,
\* the HTTP layer answering from R.
Run(T, A, R) ==
    \/ Module
    \/ \E t \in T, a \in A : ThreadCall(t, a)
    \/ \E c \in Callers : Step(c)
    \/ \E c \in Callers, r \in R : HttpRespond(c, r)
    \/ \E c \in Callers : HttpFail(c)

\* One thread calling again and again, with every argument and every response.
Next == Run({1}, ArgPairs, Responses)
Spec == Init /\ [][Next]_vars

\* The threads calling concurrently.
ConcNext == Run(Threads, ConcArgs, ConcResponses)
ConcSpec == Init /\ [][ConcNext]_vars

\* The threads calling concurrently, where the scheduler runs every thread
\* that can take a step, and the HTTP layer ends every exchange it has begun,
\* with a response or with a failure.
LiveNext == Run(Threads, LiveArgs, LiveResponses)
Fairness ==
    \A c \in Callers :
        /\ WF_vars(Step(c))
        /\ WF_vars(HttpFail(c) \/ \E r \in LiveResponses : HttpRespond(c, r))
LiveSpec == Init /\ [][LiveNext]_vars /\ Fairness

\* ------------------------------------------------------------ properties
Finished(c) == pc[c] \in {"returned", "raised"}
\* A valid argument: a non-empty string.
Valid(v) == v.type = "str" /\ v.str # <<>>

\* The three fields a server reads off a request made for the arguments a.
ExpectedQuery(a) ==
    << [name |-> <<"function">>, value |-> <<"INCOME_STATEMENT">>],
       [name |-> <<"symbol">>, value |-> a.symbol.str],
       [name |-> <<"apikey">>, value |-> a.api_key.str] >>

\* The documents the JSON bodies stand for, written out.
HonDoc ==
    PyDict(<< [k |-> <<"symbol">>, v |-> PyStr(<<"HON">>)],
              [k |-> <<"annualReports">>, v |-> PyList(<<>>)] >>)
ErrorDoc ==
    PyDict(<< [k |-> <<"Error", " ", "Message">>,
               v |-> PyStr(<<"Invalid", " ", "API", " ", "call">>)] >>)
Document(body) == IF body = HonBody THEN HonDoc ELSE ErrorDoc

\* C1: for valid (non-empty string) api_key and symbol, the request is a GET
\* to the fixed base endpoint whose query, read as a server reads it, holds
\* exactly the fields function=INCOME_STATEMENT, symbol=<symbol> and
\* apikey=<api_key>, with the values as the caller gave them.
C1_RequestTarget ==
    \A c \in Callers :
        (http[c].state # "none" /\ Valid(call[c].api_key) /\ Valid(call[c].symbol))
        => /\ http[c].request.method = "GET"
           /\ http[c].request.url = BaseUrl
           /\ ParseQuery(http[c].request.query) = ExpectedQuery(call[c])

\* A request is on the wire for a key and a ticker that both need quoting:
\* ...?function=INCOME_STATEMENT&symbol=BF+B%2B&apikey=BAD%26KEY%3D1
C1_Witness ==
    \E c \in Threads :
        /\ http[c].state = "sent"
        /\ call[c] = [api_key |-> BadKey, symbol |-> BfB]
        /\ ParseQuery(http[c].request.query) = ExpectedQuery(call[c])
        /\ http[c].request.query =
              << "function", "=", "INCOME_STATEMENT", "&",
                 "symbol", "=", "BF", "+", "B", "%2B", "&",
                 "apikey", "=", "BAD", "%26", "KEY", "%3D", "1" >>

\* C2: when the HTTP layer answers with a JSON body, the call returns the
\* document that body stands for, as it is: {"symbol": "HON",
\* "annualReports": []} comes back as exactly that.
C2_ReturnsDecodedBody ==
    \A c \in Callers :
        (Finished(c) /\ http[c].state = "responded"
                     /\ http[c].response.body \in JsonBodies)
        => /\ pc[c] = "returned"
           /\ outcome[c] = Value(Document(http[c].response.body))

\* get_financials("TESTKEY", "HON") has returned the HON document.
C2_Witness ==
    \E c \in Threads :
        /\ pc[c] = "returned"
        /\ call[c] = [api_key |-> TestKey, symbol |-> Hon]
        /\ http[c].response = [status |-> 200, body |-> HonBody]
        /\ outcome[c] = Value(HonDoc)

\* C3: a non-success status or an error object in a JSON body is returned as
\* the decoded object, not raised; and the status makes no difference to
\* what a call hands back for a body.
C3_StatusAndPayloadNotInspected ==
    /\ \A c \in Callers :
          (Finished(c) /\ http[c].state = "responded"
                       /\ http[c].response.body \in JsonBodies
                       /\ (http[c].response.status \notin 200..299
                             \/ http[c].response.body = ErrorBody))
          => /\ pc[c] = "returned"
             /\ outcome[c] = Value(Document(http[c].response.body))
    /\ \A c, d \in Callers :
          (Finished(c) /\ Finished(d)
              /\ http[c].state = "responded" /\ http[d].state = "responded"
              /\ http[c].response.body = http[d].response.body)
          => outcome[c] = outcome[d]

\* get_financials("BAD&KEY=1", ...) answered 403 with the error object has
\* returned the error object.
C3_Witness ==
    \E c \in Threads :
        /\ pc[c] = "returned"
        /\ call[c].api_key = BadKey
        /\ http[c].response = [status |-> 403, body |-> ErrorBody]
        /\ outcome[c] = Value(ErrorDoc)

\* C4: when the body is not JSON the call ends with the decoding error: data
\* is never assigned and no value, partial or default, is handed back.
C4_NonJsonBodyRaises ==
    \A c \in Callers :
        (http[c].state = "responded" /\ http[c].response.body \in NonJsonBodies)
        => /\ pc[c] \in {"awaiting", "line11", "raised"}
           /\ frame[c].data = Unbound
           /\ outcome[c].value = Unbound
           /\ pc[c] = "raised" => outcome[c] = DecodingError

\* A call whose body was a JSON document followed by more text has raised.
C4_Witness ==
    \E c \in Threads :
        /\ pc[c] = "raised"
        /\ http[c].state = "responded"
        /\ http[c].response.body = TrailingBody
        /\ outcome[c] = DecodingError

\* C5: when the GET fails at the network level the call ends with that
\* failure: no response is assigned, nothing is decoded, no value is handed
\* back.
C5_NetworkFailurePropagates ==
    \A c \in Callers :
        http[c].state = "failed"
        => /\ pc[c] \in {"awaiting", "raised"}
           /\ frame[c].response = NoResponse
           /\ frame[c].data = Unbound
           /\ outcome[c].value = Unbound
           /\ pc[c] = "raised" => outcome[c] = ConnectionError

\* A call whose exchange failed has raised the connection error.
C5_Witness ==
    \E c \in Threads :
        /\ pc[c] = "raised"
        /\ http[c].state = "failed"
        /\ outcome[c] = ConnectionError

\* C6: an invocation issues exactly one GET: none before line 10, one from
\* then on, whatever the arguments and however the invocation ends.
C6_ExactlyOneGet ==
    \A c \in Callers :
        gets[c] = IF pc[c] \in {"idle", "line4", "line5", "line10"} THEN 0 ELSE 1

\* A call with None for both arguments went out, failed, and was not retried.
C6_Witness ==
    \E c \in Threads :
        /\ call[c] = [api_key |-> PyNone, symbol |-> PyNone]
        /\ pc[c] = "raised"
        /\ http[c].state = "failed"
        /\ gets[c] = 1

\* C7: no step of get_financials changes a module variable, and what a call
\* hands back is decided by the response to it alone: two calls, whenever
\* made, that got the same response ended the same way, and two calls with
\* the same arguments sent the same request.
C7_Stateless ==
    /\ [][(\E c \in Callers : Step(c)) => UNCHANGED modvars]_vars
    /\ [](\A c, d \in Callers :
            /\ (Finished(c) /\ Finished(d)
                  /\ http[c].state = http[d].state
                  /\ http[c].response = http[d].response)
               => outcome[c] = outcome[d]
            /\ (http[c].state # "none" /\ http[d].state # "none"
                  /\ call[c] = call[d])
               => http[c].request = http[d].request)

\* After the load and an earlier call, a later call returned something else
\* than the load's call did, and financials is still what the load bound.
C7_Witness ==
    /\ modpc = "loaded"
    /\ calls >= 2
    /\ pc[1] = "returned"
    /\ outcome[1].value # outcome[Loader].value
    /\ financials = outcome[Loader].value

\* C8: under every interleaving of concurrent calls, each call sends its own
\* symbol and api_key, reads the response to its own request and ends with
\* what that response decodes to.
C8_ConcurrentCallsIndependent ==
    \A c \in Callers :
        /\ frame[c].api_key \in {Unbound, call[c].api_key}
        /\ frame[c].symbol \in {Unbound, call[c].symbol}
        /\ http[c].state # "none"
           => ParseQuery(http[c].request.query) = ExpectedQuery(call[c])
        /\ pc[c] \in {"line11", "line12"}
           => /\ http[c].state = "responded"
              /\ frame[c].response = http[c].response
        /\ pc[c] = "line12" => frame[c].data = Document(http[c].response.body)
        /\ pc[c] = "returned"
           => /\ http[c].state = "responded"
              /\ http[c].response.body \in JsonBodies
              /\ outcome[c] = Value(Document(http[c].response.body))
        /\ pc[c] = "raised"
           => \/ http[c].state = "failed" /\ outcome[c] = ConnectionError
              \/ /\ http[c].state = "responded"
                 /\ http[c].response.body \in NonJsonBodies
                 /\ outcome[c] = DecodingError

\* Two threads are inside get_financials at once, at line 12, with different
\* arguments and different data.
C8_Witness ==
    \E s, t \in Threads :
        /\ s # t
        /\ pc[s] = "line12" /\ pc[t] = "line12"
        /\ call[s] # call[t]
        /\ frame[s].data = HonDoc
        /\ frame[t].data = ErrorDoc

\* C9: a call blocked in the GET hands nothing back, and leaves the GET only
\* once the HTTP layer has answered or failed (it has no timeout of its own);
\* and when the HTTP layer ends every exchange, every call ends.
C9_BlocksUntilHttpEnds ==
    /\ [](\A c \in Callers : pc[c] = "awaiting" => outcome[c] = NoOutcome)
    /\ [][\A c \in Callers :
            (pc[c] = "awaiting" /\ pc'[c] # "awaiting")
            => http[c].state \in {"responded", "failed"}]_vars
    /\ \A c \in Callers :
          (pc[c] \notin {"idle", "returned", "raised"}) ~> Finished(c)

\* One thread is blocked on an exchange the HTTP layer has not ended while
\* another thread's call, begun no earlier than the load, has ended.
C9_Witness ==
    \E s, t \in Threads :
        /\ pc[s] = "awaiting" /\ http[s].state = "sent"
        /\ outcome[s] = NoOutcome
        /\ Finished(t) /\ http[t].state \in {"responded", "failed"}

\* C10: a load of the module binds api_key and company_symbol, makes one
\* get_financials call, with the placeholder key and "HON", issuing one GET,
\* and binds financials to what the call returned; when the call raises, the
\* load fails and financials stays unbound.
C10_ModuleLoad ==
    /\ modpc # "line15" => api_key = PlaceholderKey
    /\ modpc \notin {"line15", "line16"} => company_symbol = Hon
    /\ modpc \in {"line15", "line16", "line17"}
       => gets[Loader] = 0 /\ call[Loader] = NoCall
    /\ modpc \in {"in_call", "loaded", "failed"}
       => call[Loader] = [api_key |-> PlaceholderKey, symbol |-> Hon]
    /\ modpc \in {"loaded", "failed"}
       => /\ gets[Loader] = 1
          /\ ParseQuery(http[Loader].request.query) = ExpectedQuery(call[Loader])
    /\ modpc = "loaded"
       => /\ outcome[Loader].kind = "value"
          /\ financials = outcome[Loader].value
          /\ financials = Document(http[Loader].response.body)
    /\ modpc = "failed" => outcome[Loader].kind = "error"
    /\ modpc # "loaded" => financials = Unbound

\* A second load, after a first that failed, has bound financials to the
\* error object the service sends for the placeholder key.
C10_Witness ==
    /\ loads = 2
    /\ modpc = "loaded"
    /\ gets[Loader] = 1
    /\ financials = ErrorDoc

====
